---- MODULE Spec2Model ----
(***************************************************************************)
(* Model of the claude-bash-hook decision engine: the wrapper resolvers    *)
(* (wrapper.rs, wrappers/shell.rs), the safe-path classifiers (rm.rs,      *)
(* tee.rs), the aggregator (main.rs) and the advisory call (advice.rs).    *)
(*                                                                         *)
(* Strings are sequences of characters; a character is a one-letter TLA+   *)
(* string ("NUL" and "NL" stand for the NUL byte and the newline).         *)
(* Option<T> is a sequence of length at most one: None == <<>>,            *)
(* Some(x) == <<x>>.                                                       *)
(***************************************************************************)
EXTENDS Integers, Sequences, FiniteSets

VARIABLES pc, command, config, result, checked, message,
          cmd, unwrapped,
          initial_cwd, fs, classified, single,
          child, elapsed, advice

vars == <<pc, command, config, result, checked, message,
          cmd, unwrapped, initial_cwd, fs, classified, single,
          child, elapsed, advice>>

----------------------------------------------------------------------------
(* Option and string primitives                                            *)

None == <<>>

Some(x) == <<x>>

is_some(o) == Len(o) = 1

starts_with(s, p) == Len(s) >= Len(p) /\ SubSeq(s, 1, Len(p)) = p

ends_with(s, p) == Len(s) >= Len(p) /\ SubSeq(s, Len(s) - Len(p) + 1, Len(s)) = p

contains(s, c) == \E i \in 1..Len(s) : s[i] = c

\* str::find for a single character: the first index, 0 when absent
find(s, c) == IF contains(s, c)
              THEN CHOOSE i \in 1..Len(s) : s[i] = c /\ \A j \in 1..(i - 1) : s[j] # c
              ELSE 0

RECURSIVE join(_, _)
join(parts, sep) == IF parts = <<>> THEN <<>>
                    ELSE IF Len(parts) = 1 THEN parts[1]
                    ELSE parts[1] \o sep \o join(Tail(parts), sep)

SP == <<" ">>

\* a character that takes two bytes in UTF-8; every other character of the
\* model takes one
wide == "U+00E9"

width(ch) == IF ch = wide THEN 2 ELSE 1

\* str::len: the length in bytes
RECURSIVE len(_)
len(s) == IF s = <<>> THEN 0 ELSE width(Head(s)) + len(Tail(s))

\* str::is_char_boundary
is_char_boundary(s, n) == \E k \in 0..Len(s) : len(SubSeq(s, 1, k)) = n

\* &s[..n]: the characters of the first n bytes; the slice aborts when n is
\* not a character boundary, and the callers test that apart
byte_prefix(s, n) ==
    LET k == CHOOSE i \in 0..Len(s) :
                 /\ len(SubSeq(s, 1, i)) <= n
                 /\ \A j \in 0..Len(s) : len(SubSeq(s, 1, j)) <= n => j <= i
    IN  SubSeq(s, 1, k)

----------------------------------------------------------------------------
(* Literals                                                                *)

s_sudo == <<"s", "u", "d", "o">>
s_ssh == <<"s", "s", "h">>
s_scp == <<"s", "c", "p">>
s_rsync == <<"r", "s", "y", "n", "c">>
s_env == <<"e", "n", "v">>
s_kubectl == <<"k", "u", "b", "e", "c", "t", "l">>
s_exec == <<"e", "x", "e", "c">>
s_nice == <<"n", "i", "c", "e">>
s_nohup == <<"n", "o", "h", "u", "p">>
s_time == <<"t", "i", "m", "e">>
s_strace == <<"s", "t", "r", "a", "c", "e">>
s_ltrace == <<"l", "t", "r", "a", "c", "e">>
s_sh == <<"s", "h">>
s_bash == <<"b", "a", "s", "h">>
s_zsh == <<"z", "s", "h">>
s_rm == <<"r", "m">>
s_tee == <<"t", "e", "e">>
s_ls == <<"l", "s">>
s_fi == <<"f", "i">>
s_tmp_slash == <<"/", "t", "m", "p", "/">>

----------------------------------------------------------------------------
(* wrapper.rs: the wrapper resolvers                                       *)

\* A Command value of the analyzer: name, args, text
Command(name, args) == [name |-> name, args |-> args,
                        text |-> join(<<name>> \o args, SP)]

UnwrapResult(inner_command, host, wrapper) ==
    [inner_command |-> inner_command, host |-> host, wrapper |-> wrapper]

sudo_opts_with_args ==
    {<<"-", "g">>, <<"-", "p">>, <<"-", "r">>, <<"-", "t">>, <<"-", "u">>,
     <<"-", "T">>, <<"-", "C">>, <<"-", "h">>, <<"-", "U">>,
     <<"-", "-", "g", "r", "o", "u", "p">>,
     <<"-", "-", "p", "r", "o", "m", "p", "t">>,
     <<"-", "-", "r", "o", "l", "e">>, <<"-", "-", "t", "y", "p", "e">>,
     <<"-", "-", "u", "s", "e", "r">>,
     <<"-", "-", "o", "t", "h", "e", "r", "-", "u", "s", "e", "r">>,
     <<"-", "-", "t", "i", "m", "e", "o", "u", "t">>,
     <<"-", "-", "c", "l", "o", "s", "e", "-", "f", "r", "o", "m">>,
     <<"-", "-", "h", "o", "s", "t">>}

sudo_cluster_chars == {"g", "p", "r", "t", "u", "T", "C", "h", "U"}

\* unwrap_sudo, the combined-flag test: a single-dash token longer than two
\* characters whose last character is an option that takes an argument
sudo_cluster_skips_next(arg) ==
    /\ len(arg) > 2
    /\ ~starts_with(arg, <<"-", "-">>)
    /\ arg[Len(arg)] \in sudo_cluster_chars

\* unwrap_sudo, the loop over cmd.args
RECURSIVE sudo_scan(_, _, _, _)
sudo_scan(args, skip_next, found_command, inner_parts) ==
    IF args = <<>> THEN inner_parts
    ELSE LET arg == Head(args)
             rest == Tail(args)
         IN  IF skip_next THEN sudo_scan(rest, FALSE, found_command, inner_parts)
             ELSE IF found_command
                  THEN sudo_scan(rest, FALSE, TRUE, Append(inner_parts, arg))
             ELSE IF arg \in sudo_opts_with_args
                  THEN sudo_scan(rest, TRUE, FALSE, inner_parts)
             ELSE IF starts_with(arg, <<"-">>)
                  THEN sudo_scan(rest, sudo_cluster_skips_next(arg), FALSE, inner_parts)
             ELSE sudo_scan(rest, FALSE, TRUE, Append(inner_parts, arg))

\* (mutant of unwrap_sudo: the inner command is taken from the text of the
\* whole command, the wrapper's name included)
unwrap_sudo_whole_text(c) ==
    LET inner_parts == sudo_scan(c.args, FALSE, FALSE, <<>>)
    IN  IF inner_parts = <<>> THEN None
        ELSE Some(UnwrapResult(Some(c.text), None, s_sudo))

unwrap_sudo(c) ==
    LET inner_parts == sudo_scan(c.args, FALSE, FALSE, <<>>)
    IN  IF inner_parts = <<>> THEN None
        ELSE Some(UnwrapResult(Some(join(inner_parts, SP)), None, s_sudo))

ssh_opts_with_args ==
    {<<"-", x>> : x \in {"b", "c", "D", "E", "e", "F", "I", "i", "J", "L", "l", "m",
                         "O", "o", "p", "Q", "R", "S", "W", "w"}}

\* unwrap_ssh: the option name is the first two characters of the token
ssh_opt(arg) == IF len(arg) > 2 THEN byte_prefix(arg, 2) ELSE arg

\* unwrap_ssh: the slice &arg[0..2] aborts inside a two-byte character
ssh_opt_panics(arg) == len(arg) > 2 /\ ~is_char_boundary(arg, 2)

\* (mutant of ssh_skips_next: an inline value such as -p22 also consumes the
\* next word)
ssh_skips_next_inline(arg) == ssh_opt(arg) \in ssh_opts_with_args

\* unwrap_ssh: the next word is the option's argument only for a bare
\* two-character option
ssh_skips_next(arg) == ssh_opt(arg) \in ssh_opts_with_args /\ len(arg) = 2

\* user@host -> host (the text after the first '@')
strip_user(arg) ==
    LET at_pos == find(arg, "@")
    IN  IF at_pos > 0 THEN SubSeq(arg, at_pos + 1, Len(arg)) ELSE arg

\* unwrap_ssh, the loop over cmd.args; the scan state is
\* (skip_next, found_host, host, inner_parts)
RECURSIVE ssh_scan(_, _, _, _, _)
ssh_scan(args, skip_next, found_host, host, inner_parts) ==
    IF args = <<>> THEN [host |-> host, inner_parts |-> inner_parts]
    ELSE LET arg == Head(args)
             rest == Tail(args)
         IN  IF skip_next THEN ssh_scan(rest, FALSE, found_host, host, inner_parts)
             ELSE IF ~found_host
                  THEN IF starts_with(arg, <<"-">>)
                       THEN ssh_scan(rest, ssh_skips_next(arg), FALSE, host, inner_parts)
                       ELSE ssh_scan(rest, FALSE, TRUE, Some(strip_user(arg)), inner_parts)
             ELSE ssh_scan(rest, FALSE, TRUE, host, Append(inner_parts, arg))

\* unwrap_ssh: the loop reaches an option token whose slice aborts
RECURSIVE ssh_scan_panics(_, _)
ssh_scan_panics(args, skip_next) ==
    IF args = <<>> THEN FALSE
    ELSE IF skip_next THEN ssh_scan_panics(Tail(args), FALSE)
    ELSE IF ~starts_with(Head(args), <<"-">>) THEN FALSE
    ELSE \/ ssh_opt_panics(Head(args))
         \/ ssh_scan_panics(Tail(args), ssh_skips_next(Head(args)))

unwrap_ssh(c) ==
    LET s == ssh_scan(c.args, FALSE, FALSE, None, <<>>)
    IN  Some(UnwrapResult(IF s.inner_parts = <<>> THEN None
                          ELSE Some(join(s.inner_parts, SP)),
                          s.host, s_ssh))

\* unwrap_scp: the host of the first host:path argument
RECURSIVE scp_host(_)
scp_host(args) ==
    IF args = <<>> THEN None
    ELSE LET arg == Head(args)
             colon_pos == find(arg, ":")
             before_colon == SubSeq(arg, 1, colon_pos - 1)
             h == strip_user(before_colon)
         IN  IF starts_with(arg, <<"-">>) THEN scp_host(Tail(args))
             ELSE IF colon_pos > 0 /\ ~starts_with(h, <<"/">>) /\ ~starts_with(h, <<".">>)
                  THEN Some(h)
             ELSE scp_host(Tail(args))

unwrap_scp(c) == Some(UnwrapResult(None, scp_host(c.args), s_scp))

\* unwrap_rsync: as scp, the local-path test made on the text before the colon
RECURSIVE rsync_host(_)
rsync_host(args) ==
    IF args = <<>> THEN None
    ELSE LET arg == Head(args)
             colon_pos == find(arg, ":")
             before_colon == SubSeq(arg, 1, colon_pos - 1)
         IN  IF starts_with(arg, <<"-">>) THEN rsync_host(Tail(args))
             ELSE IF colon_pos > 0
                  THEN IF starts_with(before_colon, <<"/">>)
                          \/ starts_with(before_colon, <<".">>)
                       THEN rsync_host(Tail(args))
                       ELSE Some(strip_user(before_colon))
             ELSE rsync_host(Tail(args))

unwrap_rsync(c) == Some(UnwrapResult(None, rsync_host(c.args), s_rsync))

\* (mutant of separator_pos) the last "--" argument instead of the first
separator_pos_last(args) ==
    IF \E i \in 1..Len(args) : args[i] = <<"-", "-">>
    THEN CHOOSE i \in 1..Len(args) :
            args[i] = <<"-", "-">> /\ \A j \in (i + 1)..Len(args) : args[j] # <<"-", "-">>
    ELSE 0

\* position of the first "--" argument, 0 when absent
separator_pos(args) ==
    IF \E i \in 1..Len(args) : args[i] = <<"-", "-">>
    THEN CHOOSE i \in 1..Len(args) :
            args[i] = <<"-", "-">> /\ \A j \in 1..(i - 1) : args[j] # <<"-", "-">>
    ELSE 0

unwrap_kubectl(c) ==
    IF c.args = <<>> \/ Head(c.args) # s_exec THEN None
    ELSE LET pos == separator_pos(c.args)
             inner_parts == SubSeq(c.args, pos + 1, Len(c.args))
         IN  Some(UnwrapResult(IF pos = 0 \/ inner_parts = <<>> THEN None
                               ELSE Some(join(inner_parts, SP)),
                               None, s_kubectl \o SP \o s_exec))

env_opts_with_args ==
    {<<"-", "u">>, <<"-", "-", "u", "n", "s", "e", "t">>, <<"-", "C">>,
     <<"-", "-", "c", "h", "d", "i", "r">>, <<"-", "S">>,
     <<"-", "-", "s", "p", "l", "i", "t", "-", "s", "t", "r", "i", "n", "g">>}

\* (mutant of env_is_assignment: a token starting with '=' is skipped too)
env_is_assignment_any(arg) == contains(arg, "=")

\* unwrap_env: a VAR=value assignment

env_is_assignment(arg) == contains(arg, "=") /\ ~starts_with(arg, <<"=">>)

RECURSIVE env_scan(_, _, _, _)
env_scan(args, skip_next, found_command, inner_parts) ==
    IF args = <<>> THEN inner_parts
    ELSE LET arg == Head(args)
             rest == Tail(args)
         IN  IF skip_next THEN env_scan(rest, FALSE, found_command, inner_parts)
             ELSE IF found_command
                  THEN env_scan(rest, FALSE, TRUE, Append(inner_parts, arg))
             ELSE IF arg \in env_opts_with_args
                  THEN env_scan(rest, TRUE, FALSE, inner_parts)
             ELSE IF starts_with(arg, <<"-">>)
                  THEN env_scan(rest, FALSE, FALSE, inner_parts)
             ELSE IF env_is_assignment(arg)
                  THEN env_scan(rest, FALSE, FALSE, inner_parts)
             ELSE env_scan(rest, FALSE, TRUE, Append(inner_parts, arg))

unwrap_env(c) ==
    LET inner_parts == env_scan(c.args, FALSE, FALSE, <<>>)
    IN  IF inner_parts = <<>> THEN None
        ELSE Some(UnwrapResult(Some(join(inner_parts, SP)), None, s_env))

\* unwrap_simple_wrapper: the options that take an argument, per wrapper
simple_opts_with_args(name) ==
    IF name = s_nice
    THEN {<<"-", "n">>, <<"-", "-", "a", "d", "j", "u", "s", "t", "m", "e", "n", "t">>}
    ELSE IF name = s_time
    THEN {<<"-", "o">>, <<"-", "f">>, <<"-", "-", "o", "u", "t", "p", "u", "t">>,
          <<"-", "-", "f", "o", "r", "m", "a", "t">>}
    ELSE IF name = s_strace
    THEN {<<"-", "e">>, <<"-", "o">>, <<"-", "p">>, <<"-", "s">>, <<"-", "u">>, <<"-", "E">>}
    ELSE IF name = s_ltrace
    THEN {<<"-", "e">>, <<"-", "o">>, <<"-", "p">>, <<"-", "s">>, <<"-", "u">>, <<"-", "n">>}
    ELSE {}

\* arg.split('=').next(): the text before the first '='
before_eq(arg) == IF contains(arg, "=") THEN SubSeq(arg, 1, find(arg, "=") - 1) ELSE arg

simple_skips_next(name, arg) ==
    before_eq(arg) \in simple_opts_with_args(name) /\ ~contains(arg, "=")

RECURSIVE simple_scan(_, _, _, _, _)
simple_scan(name, args, skip_next, found_command, inner_parts) ==
    IF args = <<>> THEN inner_parts
    ELSE LET arg == Head(args)
             rest == Tail(args)
         IN  IF skip_next THEN simple_scan(name, rest, FALSE, found_command, inner_parts)
             ELSE IF found_command
                  THEN simple_scan(name, rest, FALSE, TRUE, Append(inner_parts, arg))
             ELSE IF starts_with(arg, <<"-">>)
                  THEN simple_scan(name, rest, simple_skips_next(name, arg), FALSE,
                                   inner_parts)
             ELSE simple_scan(name, rest, FALSE, TRUE, Append(inner_parts, arg))

unwrap_simple_wrapper(c) ==
    LET inner_parts == simple_scan(c.name, c.args, FALSE, FALSE, <<>>)
    IN  IF inner_parts = <<>> THEN None
        ELSE Some(UnwrapResult(Some(join(inner_parts, SP)), None, c.name))

simple_wrappers == {s_nice, s_nohup, s_time, s_strace, s_ltrace}

unwrap_command(c) ==
    IF c.name = s_sudo THEN unwrap_sudo(c)
    ELSE IF c.name = s_ssh THEN unwrap_ssh(c)
    ELSE IF c.name = s_scp THEN unwrap_scp(c)
    ELSE IF c.name = s_rsync THEN unwrap_rsync(c)
    ELSE IF c.name = s_env THEN unwrap_env(c)
    ELSE IF c.name = s_kubectl THEN unwrap_kubectl(c)
    ELSE IF c.name \in simple_wrappers THEN unwrap_simple_wrapper(c)
    ELSE None

\* unwrap_command aborts: of the resolvers only unwrap_ssh slices a token at
\* a byte index it has not found by a search
unwrap_command_panics(c) == c.name = s_ssh /\ ssh_scan_panics(c.args, FALSE)

----------------------------------------------------------------------------
(* wrappers/shell.rs: sh -c, bash -c, zsh -c                               *)

\* str::trim, for the space character
RECURSIVE trim_start(_)
trim_start(s) == IF s # <<>> /\ Head(s) = " " THEN trim_start(Tail(s)) ELSE s

RECURSIVE trim_end(_)
trim_end(s) == IF s # <<>> /\ s[Len(s)] = " " THEN trim_end(SubSeq(s, 1, Len(s) - 1))
               ELSE s

trim(s) == trim_end(trim_start(s))

strip_quotes(s0) ==
    LET s == trim(s0)
    IN  IF \/ (starts_with(s, <<"'">>) /\ ends_with(s, <<"'">>))
           \/ (starts_with(s, <<"\"">>) /\ ends_with(s, <<"\"">>))
        THEN SubSeq(s, 2, Len(s) - 1)
        ELSE s

\* strip_quotes aborts: the slice s[1..s.len() - 1] of a one-character s
strip_quotes_panics(s0) ==
    LET s == trim(s0)
    IN  /\ \/ (starts_with(s, <<"'">>) /\ ends_with(s, <<"'">>))
           \/ (starts_with(s, <<"\"">>) /\ ends_with(s, <<"\"">>))
        /\ 1 > Len(s) - 1

c_pos(args) ==
    IF \E i \in 1..Len(args) : args[i] = <<"-", "c">>
    THEN CHOOSE i \in 1..Len(args) :
            args[i] = <<"-", "c">> /\ \A j \in 1..(i - 1) : args[j] # <<"-", "c">>
    ELSE 0

shell_unwrap(c) ==
    IF c.name \notin {s_sh, s_bash, s_zsh} THEN None
    ELSE IF Len(c.args) < 2 THEN None
    ELSE IF c_pos(c.args) = 0 THEN None
    ELSE IF c_pos(c.args) + 1 > Len(c.args) THEN None
    ELSE Some(UnwrapResult(Some(strip_quotes(c.args[c_pos(c.args) + 1])), None, c.name))

\* unwrap reaches the aborting call of strip_quotes
shell_unwrap_panics(c) ==
    /\ c.name \in {s_sh, s_bash, s_zsh}
    /\ Len(c.args) >= 2
    /\ c_pos(c.args) # 0
    /\ c_pos(c.args) + 1 <= Len(c.args)
    /\ strip_quotes_panics(c.args[c_pos(c.args) + 1])

----------------------------------------------------------------------------
(* The tokenizer (analyzer::analyze), an external collaborator: a line is   *)
(* split into simple commands at unquoted ';' and into words at unquoted    *)
(* spaces, quotes kept in the words.  It fails on an unterminated quote and *)
(* on a reserved word in command position.                                  *)

parse_error == <<"p", "a", "r", "s", "e", " ", "e", "r", "r", "o", "r">>

reserved_words == {s_fi}

flush_word(word, words) == IF word = <<>> THEN words ELSE Append(words, word)

flush_command(words, cmds) ==
    IF words = <<>> THEN cmds ELSE Append(cmds, Command(Head(words), Tail(words)))

\* the scan state is (quote, word, words, cmds); quote is "" outside quotes
RECURSIVE scan_line(_, _, _, _, _)
scan_line(line, quote, word, words, cmds) ==
    IF line = <<>>
    THEN [success |-> quote = "",
          commands |-> flush_command(flush_word(word, words), cmds)]
    ELSE LET ch == Head(line)
             rest == Tail(line)
         IN  IF quote # ""
             THEN scan_line(rest, IF ch = quote THEN "" ELSE quote,
                            Append(word, ch), words, cmds)
             ELSE IF ch \in {"'", "\""}
                  THEN scan_line(rest, ch, Append(word, ch), words, cmds)
             ELSE IF ch = " "
                  THEN scan_line(rest, "", <<>>, flush_word(word, words), cmds)
             ELSE IF ch = ";"
                  THEN scan_line(rest, "", <<>>, <<>>,
                                 flush_command(flush_word(word, words), cmds))
             ELSE scan_line(rest, "", Append(word, ch), words, cmds)

analyze(line) ==
    LET s == scan_line(line, "", <<>>, <<>>, <<>>)
        ok == s.success /\ \A i \in 1..Len(s.commands) :
                              s.commands[i].name \notin reserved_words
    IN  [success |-> ok,
         commands |-> IF ok THEN s.commands ELSE <<>>,
         error |-> IF ok THEN None ELSE Some(parse_error)]

----------------------------------------------------------------------------
(* The Policy Store (config::Config), an external collaborator: a rule per *)
(* command name, a default for the other names, a rule per host.           *)

Permissions == {"Allow", "Ask", "Deny"}

\* the order of Permission: Allow < Ask < Deny
rank(p) == CASE p = "Allow" -> 0 [] p = "Ask" -> 1 [] p = "Deny" -> 2

PermissionResult(permission, reason, suggestion) ==
    [permission |-> permission, reason |-> reason, suggestion |-> suggestion]

\* PermissionResult::default()
default_result == PermissionResult("Allow", <<>>, None)

rule_suggestion == <<"t", "r", "y">>

default_reason == <<"d", "e", "f", "a", "u", "l", "t">>

\* config.check_command(name, args)
check_command(name, args, cfg) ==
    IF name \in DOMAIN cfg.rules
    THEN PermissionResult(cfg.rules[name], name,
                          IF name \in cfg.suggest THEN Some(rule_suggestion) ELSE None)
    ELSE PermissionResult(cfg.default, default_reason, None)

\* config.check_command_with_host(name, args, host)
check_command_with_host(name, args, host, cfg) ==
    IF is_some(host) /\ host[1] \in DOMAIN cfg.hosts
    THEN PermissionResult(cfg.hosts[host[1]], <<"@">> \o host[1], None)
    ELSE check_command(name, args, cfg)

----------------------------------------------------------------------------
(* rm.rs and tee.rs: the safe-path classifiers.  The realpath call is the   *)
(* environment's: fs maps a path to what `realpath -m -- path` prints, or   *)
(* to None when the call fails.                                             *)

s_tmp == <<"/", "t", "m", "p">>

all_slashes(s) == \A i \in 1..Len(s) : s[i] = "/"

\* resolve_path(path)
resolve_path(path, oracle) == IF path \in DOMAIN oracle THEN oracle[path] ELSE None

RECURSIVE strip_trailing_slashes(_)
strip_trailing_slashes(s) ==
    IF s # <<>> /\ s[Len(s)] = "/" THEN strip_trailing_slashes(SubSeq(s, 1, Len(s) - 1))
    ELSE s

last_slash(s) == IF contains(s, "/")
                 THEN CHOOSE i \in 1..Len(s) :
                         s[i] = "/" /\ \A j \in (i + 1)..Len(s) : s[j] # "/"
                 ELSE 0

\* std::path::Path::new(path).parent(): the path less its last component;
\* None for the empty path and for the root
parent(path) ==
    LET q == strip_trailing_slashes(path)
        r == strip_trailing_slashes(SubSeq(q, 1, last_slash(q)))
    IN  IF q = <<>> THEN None
        ELSE IF last_slash(q) = 0 THEN Some(<<>>)
        ELSE IF r = <<>> THEN Some(<<"/">>)
        ELSE Some(r)

\* tee.rs, is_under_tmp
is_under_tmp(resolved) ==
    IF ~starts_with(resolved, s_tmp_slash) THEN FALSE
    ELSE LET after == SubSeq(resolved, 6, Len(resolved))
         IN  IF after = <<>> THEN FALSE
             ELSE IF all_slashes(after) THEN FALSE
             ELSE TRUE

\* rm.rs, is_under_allowed_dir
is_under_allowed_dir(resolved, cwd) ==
    IF /\ starts_with(resolved, s_tmp_slash)
       /\ SubSeq(resolved, 6, Len(resolved)) # <<>>
       /\ ~all_slashes(SubSeq(resolved, 6, Len(resolved)))
    THEN TRUE
    ELSE IF is_some(cwd)
         THEN LET cwd_prefix == IF ends_with(cwd[1], <<"/">>) THEN cwd[1]
                                ELSE cwd[1] \o <<"/">>
              IN  starts_with(resolved, cwd_prefix)
    ELSE FALSE

\* the path tests before realpath: empty, NUL byte, newline
suspicious(path) == path = <<>> \/ contains(path, "NUL") \/ contains(path, "NL")

\* rm.rs, is_safe_path
is_safe_path(path, cwd, oracle) ==
    IF suspicious(path) THEN FALSE
    ELSE IF is_some(resolve_path(path, oracle))
         THEN is_under_allowed_dir(resolve_path(path, oracle)[1], cwd)
    ELSE IF /\ is_some(parent(path))
            /\ parent(path)[1] # <<>>
            /\ is_some(resolve_path(parent(path)[1], oracle))
         THEN is_under_allowed_dir(resolve_path(parent(path)[1], oracle)[1], cwd)
    ELSE FALSE

\* tee.rs, is_safe_tmp_path
is_safe_tmp_path(path, oracle) ==
    IF suspicious(path) THEN FALSE
    ELSE IF is_some(resolve_path(path, oracle))
         THEN is_under_tmp(resolve_path(path, oracle)[1])
    ELSE IF /\ is_some(parent(path))
            /\ parent(path)[1] # <<>>
            /\ is_some(resolve_path(parent(path)[1], oracle))
         THEN is_under_tmp(resolve_path(parent(path)[1], oracle)[1])
    ELSE FALSE

\* the arguments that are not flags
RECURSIVE file_args(_)
file_args(args) ==
    IF args = <<>> THEN <<>>
    ELSE IF starts_with(Head(args), <<"-">>) THEN file_args(Tail(args))
    ELSE <<Head(args)>> \o file_args(Tail(args))

rm_reason ==
    <<"r", "m", " ", "i", "n", " ", "/", "t", "m", "p", " ", "o", "r", " ",
      "p", "r", "o", "j", "e", "c", "t", " ", "d", "i", "r">>

tee_no_file_reason ==
    <<"t", "e", "e", " ", "w", "i", "t", "h", " ", "n", "o", " ", "o", "u",
      "t", "p", "u", "t", " ", "f", "i", "l", "e">>

tee_reason == <<"t", "e", "e", " ", "t", "o", " ", "/", "t", "m", "p">>

\* check_rm, the loop over the file arguments
RECURSIVE rm_all_safe(_, _, _)
rm_all_safe(paths, cwd, oracle) ==
    IF paths = <<>> THEN TRUE
    ELSE IF ~is_safe_path(Head(paths), cwd, oracle) THEN FALSE
    ELSE rm_all_safe(Tail(paths), cwd, oracle)

check_rm(c, cwd, oracle) ==
    IF c.name # s_rm THEN None
    ELSE IF file_args(c.args) = <<>> THEN None
    ELSE IF ~rm_all_safe(file_args(c.args), cwd, oracle) THEN None
    ELSE Some([permission |-> "Allow", reason |-> rm_reason, suggestion |-> None])

\* check_tee, the loop over the file arguments
RECURSIVE tee_all_safe(_, _)
tee_all_safe(paths, oracle) ==
    IF paths = <<>> THEN TRUE
    ELSE IF ~is_safe_tmp_path(Head(paths), oracle) THEN FALSE
    ELSE tee_all_safe(Tail(paths), oracle)

check_tee(c, cwd, oracle) ==
    IF c.name # s_tee THEN None
    ELSE IF file_args(c.args) = <<>>
         THEN Some([permission |-> "Allow", reason |-> tee_no_file_reason,
                    suggestion |-> None])
    ELSE IF ~tee_all_safe(file_args(c.args), oracle) THEN None
    ELSE Some([permission |-> "Allow", reason |-> tee_reason, suggestion |-> None])

----------------------------------------------------------------------------
(* main.rs: the aggregator                                                 *)

\* The resolver main.rs calls, wrapper::unwrap_command(cmd, config): the
\* families of wrapper.rs and the inline shell of wrappers/shell.rs
resolve(c, cfg) ==
    IF unwrap_command(c) # None THEN unwrap_command(c) ELSE shell_unwrap(c)

\* (mutant of parse_failure_result: a line that does not parse is let through)
parse_failure_allow(analysis) ==
    PermissionResult("Allow", IF is_some(analysis.error) THEN analysis.error[1] ELSE <<>>,
                     None)

\* analyze_command, the tokenizer failed
parse_failure_result(analysis) ==
    PermissionResult("Ask", IF is_some(analysis.error) THEN analysis.error[1] ELSE <<>>,
                     None)

no_commands_found ==
    <<"N", "o", " ", "c", "o", "m", "m", "a", "n", "d", "s", " ",
      "f", "o", "u", "n", "d">>

\* analyze_command, no command in the line
empty_result == PermissionResult("Allow", no_commands_found, None)

\* (mutant of merge: the last command's result wins)
merge_last(most_restrictive, r) == r

\* (mutant of merge: a result as restrictive as the one kept replaces it)
merge_not_strict(most_restrictive, r) ==
    IF rank(r.permission) >= rank(most_restrictive.permission)
    THEN r ELSE most_restrictive

\* analyze_command, one turn of the loop: keep the strictly more restrictive
merge(most_restrictive, r) ==
    IF rank(r.permission) > rank(most_restrictive.permission)
    THEN r ELSE most_restrictive

RECURSIVE fold_results(_, _)
fold_results(results, most_restrictive) ==
    IF results = <<>> THEN most_restrictive
    ELSE fold_results(Tail(results), merge(most_restrictive, Head(results)))

\* (mutant of host_merge: the host rule is ignored)
host_merge_inner_only(host_result, inner_result) == inner_result

\* check_single_command, a wrapper with an inner command and a host
host_merge(host_result, inner_result) ==
    IF rank(host_result.permission) > rank(inner_result.permission)
    THEN host_result ELSE inner_result

RECURSIVE analyze_command(_, _)
RECURSIVE check_single_command(_, _)

\* (mutant of check_single_command: the wrapper is looked up as it stands,
\* its inner command never analysed)
check_single_command_no_unwrap(c, cfg) == check_command(c.name, c.args, cfg)

\* (mutant of check_single_command: a wrapper with a host and no inner
\* command is looked up without its host)
check_single_command_host_dropped(c, cfg) ==
    LET u == resolve(c, cfg)
    IN  IF is_some(u) /\ is_some(u[1].inner_command)
        THEN LET inner_result == analyze_command(u[1].inner_command[1], cfg)
             IN  IF is_some(u[1].host)
                 THEN host_merge(check_command_with_host(c.name, c.args, u[1].host, cfg),
                                 inner_result)
                 ELSE inner_result
        ELSE check_command(c.name, c.args, cfg)

check_single_command(c, cfg) ==
    LET u == resolve(c, cfg)
    IN  IF is_some(u) /\ is_some(u[1].inner_command)
        THEN LET inner_result == analyze_command(u[1].inner_command[1], cfg)
             IN  IF is_some(u[1].host)
                 THEN host_merge(check_command_with_host(c.name, c.args, u[1].host, cfg),
                                 inner_result)
                 ELSE inner_result
        ELSE IF is_some(u) /\ is_some(u[1].host)
        THEN check_command_with_host(c.name, c.args, u[1].host, cfg)
        ELSE check_command(c.name, c.args, cfg)

\* the resolver aborts: one of its two parts does
resolve_panics(c) ==
    \/ unwrap_command_panics(c)
    \/ (unwrap_command(c) = None /\ shell_unwrap_panics(c))

\* analyze_command aborts: the resolver does on one of the commands of the
\* line, or of an inner command
RECURSIVE analyze_command_panics(_, _)
check_single_command_panics(c, cfg) ==
    LET u == resolve(c, cfg)
    IN  \/ resolve_panics(c)
        \/ /\ is_some(u)
           /\ is_some(u[1].inner_command)
           /\ analyze_command_panics(u[1].inner_command[1], cfg)

analyze_command_panics(line, cfg) ==
    LET analysis == analyze(line)
    IN  /\ analysis.success
        /\ \E i \in 1..Len(analysis.commands) :
               check_single_command_panics(analysis.commands[i], cfg)

\* the per-command results the loop of analyze_command computes, in order
check_all(commands, cfg) ==
    [i \in 1..Len(commands) |-> check_single_command(commands[i], cfg)]

analyze_command(line, cfg) ==
    LET analysis == analyze(line)
    IN  IF ~analysis.success THEN parse_failure_result(analysis)
        ELSE IF analysis.commands = <<>> THEN empty_result
        ELSE fold_results(check_all(analysis.commands, cfg), default_result)

\* format_reason and shorten_command
MaxShown == 60

shorten_command(line) ==
    IF len(line) > MaxShown THEN byte_prefix(line, MaxShown) ELSE line

\* shorten_command: the slice &command[..60] aborts inside a two-byte character
shorten_command_panics(line) ==
    len(line) > MaxShown /\ ~is_char_boundary(line, MaxShown)

\* format_reason calls shorten_command only for a non-empty reason
format_reason_panics(line, r) == r.reason # <<>> /\ shorten_command_panics(line)

format_reason(line, r) ==
    LET reason == IF r.reason = <<>> THEN line
                  ELSE shorten_command(line) \o <<":", " ">> \o r.reason
    IN  IF is_some(r.suggestion) THEN reason \o <<"NL">> \o r.suggestion[1] ELSE reason

\* main: Permission -> the decision string of the hook output
decision(permission) ==
    CASE permission = "Allow" -> "allow"
      [] permission = "Ask" -> "ask"
      [] permission = "Deny" -> "deny"

----------------------------------------------------------------------------
(* Inputs of the hook: the command lines and the policy stores             *)

\* most words in a command line
MaxWords == 3

s_h == <<"h">>
s_dash_c == <<"-", "c">>
s_empty_quoted == <<"'", "'">>
s_semicolon == <<";">>

s_wide_opt == <<"-", wide>>

Vocabulary == {s_sudo, s_ssh, s_sh, s_dash_c, s_ls, s_rm, s_h, s_semicolon,
               s_empty_quoted, s_fi, s_wide_opt}

SeqsUpTo(S, n) == UNION {[1..k -> S] : k \in 0..n}

\* the command lines of at most n words
Lines(n) == {join(w, SP) : w \in SeqsUpTo(Vocabulary, n)}

Configs == {[rules |-> r, default |-> "Ask", hosts |-> h, suggest |-> {s_rm}] :
               r \in [{s_ls, s_rm} -> Permissions], h \in [{s_h} -> Permissions]}

\* the value of the variables a specification does not use
Unused == <<>>

----------------------------------------------------------------------------
(* The hook process: one command line, analysed and answered               *)

Init ==
    /\ pc = "start"
    /\ command \in Lines(MaxWords)
    /\ config \in Configs
    /\ result = None
    /\ checked = <<>>
    /\ message = None
    /\ cmd = Unused /\ unwrapped = Unused
    /\ initial_cwd = Unused /\ fs = Unused /\ classified = Unused /\ single = Unused
    /\ child = Unused /\ elapsed = Unused /\ advice = Unused

\* main: let result = analyze_command(&command, &config)
Analyze ==
    /\ pc = "start"
    /\ IF analyze_command_panics(command, config)
       THEN pc' = "panicked" /\ UNCHANGED <<result, checked>>
       ELSE /\ result' = Some(analyze_command(command, config))
            /\ checked' = check_all(analyze(command).commands, config)
            /\ pc' = "analyzed"
    /\ UNCHANGED <<child, elapsed, advice, command, config, message, cmd, unwrapped,
                   initial_cwd, fs, classified, single>>

\* main: the hook output, decision and formatted reason
Output ==
    /\ pc = "analyzed"
    /\ IF format_reason_panics(command, result[1])
       THEN pc' = "panicked" /\ UNCHANGED message
       ELSE /\ message' = Some([decision |-> decision(result[1].permission),
                                reason |-> format_reason(command, result[1])])
            /\ pc' = "done"
    /\ UNCHANGED <<child, elapsed, advice, command, config, result, checked, cmd, unwrapped,
                   initial_cwd, fs, classified, single>>

Next == Analyze \/ Output

Spec == Init /\ [][Next]_vars

----------------------------------------------------------------------------
(* The hook output alone: main's last step on any line and any result      *)

\* most one-byte characters at the head of a line
MaxPad == 61

pad(n) == [i \in 1..n |-> "a"]

wides(n) == [i \in 1..n |-> wide]

\* lines of one-byte characters ending in up to two two-byte ones, and lines
\* of two-byte characters
FormatLines(m) ==
    {pad(n) \o wides(k) : n \in 0..m, k \in 0..2} \cup {wides(n) : n \in 0..m}

FormatResults ==
    {PermissionResult(p, r, g) :
        p \in Permissions, r \in {<<>>, default_reason},
        g \in {None, Some(rule_suggestion)}}

InitFormat ==
    /\ pc = "analyzed"
    /\ command \in FormatLines(MaxPad)
    /\ result \in {Some(r) : r \in FormatResults}
    /\ message = None
    /\ config = Unused /\ checked = Unused
    /\ cmd = Unused /\ unwrapped = Unused
    /\ initial_cwd = Unused /\ fs = Unused /\ classified = Unused /\ single = Unused
    /\ child = Unused /\ elapsed = Unused /\ advice = Unused

NextFormat == Output

SpecFormat == InitFormat /\ [][NextFormat]_vars

----------------------------------------------------------------------------
(* Properties of the aggregator, checked under Spec                        *)

Max(S) == CHOOSE x \in S : \A y \in S : y <= x

\* analyze_command has returned and its result is not yet formatted
analyzed == pc = "analyzed"

\* the commands of the line, as the tokenizer gives them
commands_of(line) == analyze(line).commands

\* the resolver's inner command for c: Some(text) or None
inner_of(c) == IF is_some(resolve(c, config)) THEN resolve(c, config)[1].inner_command
               ELSE None

host_of(c) == IF is_some(resolve(c, config)) THEN resolve(c, config)[1].host ELSE None

\* C1: for a line that tokenizes to a non-empty sequence of simple commands the
\* permission analyze_command returns is the maximum, under Allow < Ask < Deny,
\* of the permissions check_single_command gives the commands one by one; a Deny
\* anywhere makes the result Deny.
C1_MostRestrictive ==
    (analyzed /\ analyze(command).success /\ commands_of(command) # <<>>) =>
        /\ Len(checked) = Len(commands_of(command))
        /\ rank(result[1].permission) =
               Max({rank(checked[i].permission) : i \in 1..Len(checked)})
        /\ (\E i \in 1..Len(checked) : checked[i].permission = "Deny") =>
               result[1].permission = "Deny"

\* C1 witness: a Deny followed by an Allow, decided Deny
C1_Witness ==
    /\ analyzed
    /\ Len(checked) = 2
    /\ checked[1].permission = "Deny"
    /\ checked[2].permission = "Allow"
    /\ result[1].permission = "Deny"

\* C2: when the tokenizer fails analyze_command returns Ask with the diagnostic,
\* whatever the policy store holds; this holds at every level of the recursion,
\* so a wrapper whose inner command does not tokenize is not decided Allow.
C2_ParseFailureAsks ==
    analyzed =>
        /\ ~analyze(command).success =>
               result[1] = PermissionResult("Ask", analyze(command).error[1], None)
        /\ \A i \in 1..Len(checked) :
               LET c == commands_of(command)[i]
               IN  (is_some(inner_of(c)) /\ ~analyze(inner_of(c)[1]).success) =>
                       /\ analyze_command(inner_of(c)[1], config) =
                              PermissionResult("Ask", analyze(inner_of(c)[1]).error[1],
                                               None)
                       /\ checked[i].permission # "Allow"
                       /\ ~is_some(host_of(c)) =>
                              checked[i] = PermissionResult("Ask", parse_error, None)
                       /\ result[1].permission # "Allow"

all_allow(cfg) ==
    /\ \A n \in DOMAIN cfg.rules : cfg.rules[n] = "Allow"
    /\ \A h \in DOMAIN cfg.hosts : cfg.hosts[h] = "Allow"

\* C2 witness: a wrapper over an inner command that does not tokenize, under a
\* policy store that allows every rule, decided Ask
C2_Witness ==
    /\ analyzed
    /\ all_allow(config)
    /\ Len(checked) = 1
    /\ is_some(inner_of(commands_of(command)[1]))
    /\ ~analyze(inner_of(commands_of(command)[1])[1]).success
    /\ result[1] = PermissionResult("Ask", parse_error, None)

\* the line is one wrapper command that resolves to an inner command, no host
sole_wrapper(line) ==
    /\ analyze(line).success
    /\ Len(commands_of(line)) = 1
    /\ is_some(inner_of(commands_of(line)[1]))
    /\ ~is_some(host_of(commands_of(line)[1]))

inner_line(line) == inner_of(commands_of(line)[1])[1]

\* C3 as stated: analysing the wrapper line gives the PermissionResult
\* (permission, reason, suggestion) of analysing the inner command directly,
\* also when the inner command tokenizes to no command.
C3_Original ==
    (analyzed /\ sole_wrapper(command)) =>
        result[1] = analyze_command(inner_line(command), config)

inner_is_empty(line) ==
    analyze(inner_line(line)).success /\ commands_of(inner_line(line)) = <<>>

\* C3, amended: the wrapper line gets the permission of the inner command; it
\* gets the same reason and suggestion too unless the inner command tokenizes
\* to no command, where the wrapper line gets the initial Allow value (empty
\* reason) and the inner command alone gets "No commands found".
C3_UnwrapIdempotent ==
    (analyzed /\ sole_wrapper(command)) =>
        /\ result[1].permission = analyze_command(inner_line(command), config).permission
        /\ ~inner_is_empty(command) =>
               result[1] = analyze_command(inner_line(command), config)
        /\ inner_is_empty(command) =>
               /\ result[1] = default_result
               /\ analyze_command(inner_line(command), config) = empty_result

\* C3 witness: a wrapper over a denied command, decided as the command alone
C3_Witness ==
    /\ analyzed
    /\ sole_wrapper(command)
    /\ ~inner_is_empty(command)
    /\ result[1].permission = "Deny"
    /\ is_some(result[1].suggestion)
    /\ result[1] = analyze_command(inner_line(command), config)

\* C4: with an inner command and a host the per-command result is the host-aware
\* result when that is strictly more restrictive than the inner result, and the
\* inner result otherwise: its permission is the maximum of the two, never below
\* the inner command's own.
C4_HostAndInner ==
    analyzed =>
        \A i \in 1..Len(checked) :
            LET c == commands_of(command)[i]
            IN  (is_some(inner_of(c)) /\ is_some(host_of(c))) =>
                    LET inner_result == analyze_command(inner_of(c)[1], config)
                        host_result == check_command_with_host(c.name, c.args,
                                                               host_of(c), config)
                    IN  /\ rank(checked[i].permission) =
                               Max({rank(inner_result.permission),
                                    rank(host_result.permission)})
                        /\ checked[i] =
                               IF rank(host_result.permission) >
                                      rank(inner_result.permission)
                               THEN host_result ELSE inner_result
                        /\ rank(result[1].permission) >= rank(inner_result.permission)

\* C4 witness: ssh to a denied host with an inner command that is only Ask
C4_Witness ==
    /\ analyzed
    /\ Len(checked) = 1
    /\ is_some(inner_of(commands_of(command)[1]))
    /\ is_some(host_of(commands_of(command)[1]))
    /\ analyze_command(inner_of(commands_of(command)[1])[1], config).permission = "Ask"
    /\ checked[1].permission = "Deny"
    /\ result[1].permission = "Deny"

\* C18: a command the resolver matches with a host and no inner command gets
\* exactly check_command_with_host(name, args, host); one it matches with
\* neither, or does not match, gets exactly check_command(name, args); both on
\* the original name and arguments.
C18_Fallbacks ==
    analyzed =>
        \A i \in 1..Len(checked) :
            LET c == commands_of(command)[i]
            IN  /\ (inner_of(c) = None /\ is_some(host_of(c))) =>
                       checked[i] = check_command_with_host(c.name, c.args,
                                                            host_of(c), config)
                /\ (inner_of(c) = None /\ host_of(c) = None) =>
                       checked[i] = check_command(c.name, c.args, config)

\* C18 witness: ssh to a host with a rule and no remote command, decided by
\* the host rule and not by the plain lookup
C18_Witness ==
    /\ analyzed
    /\ Len(checked) = 1
    /\ is_some(resolve(commands_of(command)[1], config))
    /\ inner_of(commands_of(command)[1]) = None
    /\ host_of(commands_of(command)[1]) = Some(s_h)
    /\ checked[1] = PermissionResult("Deny", <<"@">> \o s_h, None)
    /\ checked[1] # check_command(s_ssh, commands_of(command)[1].args, config)
    /\ result[1] = checked[1]

\* C19: the merge starts from the initial Allow value and replaces the kept
\* result only for a strictly higher permission: when the maximum is Ask or
\* Deny the result is that of the earliest command attaining it, and when every
\* command is Allow the result is the initial Allow value.
C19_EarliestWins ==
    (analyzed /\ analyze(command).success /\ commands_of(command) # <<>>) =>
        LET top == Max({rank(checked[i].permission) : i \in 1..Len(checked)})
            earliest == CHOOSE i \in 1..Len(checked) :
                            /\ rank(checked[i].permission) = top
                            /\ \A j \in 1..(i - 1) : rank(checked[j].permission) < top
        IN  IF top = rank("Allow") THEN result[1] = default_result
            ELSE result[1] = checked[earliest]

\* C19 witness: two commands denied for different reasons, the first one's
\* reason and suggestion returned
C19_Witness ==
    /\ analyzed
    /\ Len(checked) = 2
    /\ checked[1].permission = "Deny" /\ checked[2].permission = "Deny"
    /\ checked[1] # checked[2]
    /\ is_some(checked[1].suggestion)
    /\ result[1] = checked[1]

----------------------------------------------------------------------------
(* The wrapper resolver alone: unwrap_command applied to one Command       *)

\* most arguments of a wrapper command
MaxArgs == 4

sudo_tokens ==
    {<<"-", "A">>, <<"-", "u">>, <<"-", "-", "u", "s", "e", "r">>,
     <<"-", "u", "r", "o", "o", "t">>,
     <<"-", "-", "u", "s", "e", "r", "=", "r", "o", "o", "t">>,
     <<"-", "A", "u">>, <<"-", "A", "E">>, <<"r", "o", "o", "t">>, <<"l", "s">>,
     <<"-", "l", "a">>}

env_tokens ==
    {<<"-", "i">>, <<"-", "u">>, <<"V", "A", "R", "=", "1">>, <<"=", "x">>,
     <<"l", "s">>, <<"-", "l", "a">>}

simple_tokens ==
    {<<"-", "n">>, <<"-", "o">>, <<"-", "v">>, <<"1", "0">>, <<"l", "s">>,
     <<"-", "l", "a">>}

ssh_tokens ==
    {<<"-", "p">>, <<"-", "p", "2", "2">>, <<"-", "v">>, <<"-", wide>>, <<"2", "2">>,
     <<"u", "s", "e", "r", "@", "h", "o", "s", "t">>, <<"h", "o", "s", "t">>,
     <<"l", "s">>, <<"-", "l", "a">>}

\* -r, f, h:p, u@h:p, /x:y, /a@h:p, u@/x:p
copy_tokens ==
    {<<"-", "r">>, <<"f">>, <<"h", ":", "p">>, <<"u", "@", "h", ":", "p">>,
     <<"/", "x", ":", "y">>, <<"/", "a", "@", "h", ":", "p">>,
     <<"u", "@", "/", "x", ":", "p">>}

kubectl_tokens ==
    {s_exec, <<"g", "e", "t">>, <<"p", "o", "d">>, <<"-", "-">>, <<"l", "s">>,
     <<"-", "l", "a">>}

\* -c, ls, 'ls', "'ls'", 'ls", a lone ', and ls after a space
shell_tokens ==
    {s_dash_c, s_ls, <<"'", "l", "s", "'">>, <<"\"", "'", "l", "s", "'", "\"">>,
     <<"'", "l", "s", "\"">>, <<"'">>, <<" ", "l", "s">>}

wrap_tokens(name) ==
    IF name = s_sudo THEN sudo_tokens
    ELSE IF name \in {s_sh, s_bash, s_zsh} THEN shell_tokens
    ELSE IF name = s_kubectl THEN kubectl_tokens
    ELSE IF name = s_env THEN env_tokens
    ELSE IF name = s_ssh THEN ssh_tokens
    ELSE IF name \in {s_scp, s_rsync} THEN copy_tokens
    ELSE simple_tokens

WrapNames ==
    {s_sudo, s_env, s_ssh, s_scp, s_rsync, s_kubectl, s_sh, s_bash, s_zsh}
        \cup simple_wrappers

InitWrap ==
    /\ pc = "wrapper"
    /\ \E name \in WrapNames : \E k \in 0..MaxArgs :
           \E args \in [1..k -> wrap_tokens(name)] : cmd = Command(name, args)
    /\ unwrapped = None
    /\ command = Unused /\ config = Unused /\ result = Unused /\ checked = Unused
    /\ message = Unused
    /\ initial_cwd = Unused /\ fs = Unused /\ classified = Unused /\ single = Unused
    /\ child = Unused /\ elapsed = Unused /\ advice = Unused

\* wrapper::unwrap_command(&cmd)
Unwrap ==
    /\ pc = "wrapper"
    /\ IF unwrap_command_panics(cmd)
       THEN pc' = "unwrap_panicked" /\ UNCHANGED unwrapped
       ELSE pc' = "unwrapped" /\ unwrapped' = Some(unwrap_command(cmd))
    /\ UNCHANGED <<child, elapsed, advice, command, config, result, checked, message, cmd,
                   initial_cwd, fs, classified, single>>

\* wrappers::shell::unwrap(&cmd); an abort leaves no result
ShellUnwrap ==
    /\ pc = "wrapper"
    /\ IF shell_unwrap_panics(cmd)
       THEN pc' = "shell_panicked" /\ UNCHANGED unwrapped
       ELSE pc' = "shell_unwrapped" /\ unwrapped' = Some(shell_unwrap(cmd))
    /\ UNCHANGED <<child, elapsed, advice, command, config, result, checked, message, cmd,
                   initial_cwd, fs, classified, single>>

NextWrap == Unwrap \/ ShellUnwrap

SpecWrap == InitWrap /\ [][NextWrap]_vars

----------------------------------------------------------------------------
(* Properties of the resolver, checked under SpecWrap                      *)

\* the least index of the set S, 0 when S is empty
first_of(S) == IF S = {} THEN 0 ELSE CHOOSE i \in S : \A j \in S : i <= j

\* what the resolver returns when the inner command is the suffix from start
inner_from(c, start, wrapper) ==
    IF start = 0 THEN None
    ELSE Some(UnwrapResult(Some(join(SubSeq(c.args, start, Len(c.args)), SP)),
                           None, wrapper))

\* sudo's own reading of one option token: "next" when its value is the next
\* token, "self" when it is a flag or carries its value, "command" otherwise
sudo_token_kind(arg) ==
    IF ~starts_with(arg, <<"-">>) THEN "command"
    ELSE IF starts_with(arg, <<"-", "-">>)
         THEN IF contains(arg, "=") THEN "self"
              ELSE IF arg \in sudo_opts_with_args THEN "next" ELSE "self"
    ELSE LET k == first_of({i \in 2..Len(arg) : arg[i] \in sudo_cluster_chars})
         IN  IF k = 0 THEN "self" ELSE IF k = Len(arg) THEN "next" ELSE "self"

\* the index of the first token that is neither an option nor an option's
\* value, scanning from index i; 0 when there is none
RECURSIVE sudo_command_start(_, _)
sudo_command_start(args, i) ==
    IF i > Len(args) THEN 0
    ELSE IF sudo_token_kind(args[i]) = "command" THEN i
    ELSE IF sudo_token_kind(args[i]) = "next" THEN sudo_command_start(args, i + 2)
    ELSE sudo_command_start(args, i + 1)

\* C8: for a sudo argument list of bare flags, value-taking options with the
\* value in the next token or attached in the same token, and flag clusters,
\* the inner command unwrap_sudo extracts begins at the first token that is
\* neither an option nor an option's value.
C8_SudoAdjacency ==
    (pc = "unwrapped" /\ cmd.name = s_sudo) =>
        unwrapped[1] = inner_from(cmd, sudo_command_start(cmd.args, 1), s_sudo)

passthrough_names == {s_sudo, s_env} \cup simple_wrappers

\* the tokens whose value is the next token, per family

takes_value(name, arg) ==
    IF name = s_sudo
    THEN \/ arg \in sudo_opts_with_args
         \/ (Len(arg) > 2 /\ arg[1] = "-" /\ arg[2] # "-"
             /\ arg[Len(arg)] \in {"g", "p", "r", "t", "u", "T", "C", "h", "U"})
    ELSE IF name = s_env THEN arg \in env_opts_with_args
    ELSE IF name = s_ssh THEN Len(arg) = 2 /\ arg \in ssh_opts_with_args
    ELSE arg \in simple_opts_with_args(name)

skipped_alone(name, arg) ==
    \/ (arg # <<>> /\ arg[1] = "-")
    \/ (name = s_env /\ \E i \in 2..Len(arg) : arg[i] = "=" /\ arg[1] # "=")

\* C9 as stated: the skipped tokens are every token starting with '-', every
\* token that follows a token equal to a value-taking option (for sudo, or a
\* cluster ending in one), and for env the NAME=VALUE tokens; the inner
\* command is the space-join of the suffix from the first token not skipped.
C9_Original ==
    (pc = "unwrapped" /\ cmd.name \in passthrough_names) =>
        LET skipped(i) == \/ skipped_alone(cmd.name, cmd.args[i])
                          \/ (i > 1 /\ takes_value(cmd.name, cmd.args[i - 1]))
        IN  unwrapped[1] =
                inner_from(cmd, first_of({i \in 1..Len(cmd.args) : ~skipped(i)}),
                           cmd.name)

\* token i is taken as the value of the option before it: that option is a
\* value-taking one and was not itself taken as a value
RECURSIVE taken_as_value(_, _, _)
taken_as_value(name, args, i) ==
    /\ i > 1
    /\ takes_value(name, args[i - 1])
    /\ ~taken_as_value(name, args, i - 1)

\* C9, amended: as stated, but the token after a value-taking option is
\* skipped only when that option token was not itself taken as the value of
\* the option before it.
C9_InnerIsSuffix ==
    (pc = "unwrapped" /\ cmd.name \in passthrough_names) =>
        LET skipped(i) == \/ skipped_alone(cmd.name, cmd.args[i])
                          \/ taken_as_value(cmd.name, cmd.args, i)
        IN  unwrapped[1] =
                inner_from(cmd, first_of({i \in 1..Len(cmd.args) : ~skipped(i)}),
                           cmd.name)

\* C9 witness: sudo with a value-taking option whose value is itself an option
\* token, the next token being the command and the flag after it kept
C9_Witness ==
    /\ pc = "unwrapped"
    /\ cmd.name = s_sudo
    /\ Len(cmd.args) = 4
    /\ cmd.args[1] \in sudo_opts_with_args
    /\ cmd.args[2] \in sudo_opts_with_args
    /\ ~starts_with(cmd.args[3], <<"-">>)
    /\ starts_with(cmd.args[4], <<"-">>)
    /\ unwrapped[1] =
           Some(UnwrapResult(Some(cmd.args[3] \o SP \o cmd.args[4]), None, s_sudo))

qualifies(arg) ==
    /\ ~starts_with(arg, <<"-">>)
    /\ contains(arg, ":")
    /\ ~starts_with(SubSeq(arg, 1, find(arg, ":") - 1), <<"/">>)
    /\ ~starts_with(SubSeq(arg, 1, find(arg, ":") - 1), <<".">>)

first_qualifying_host(args) ==
    LET i == first_of({j \in 1..Len(args) : qualifies(args[j])})
    IN  IF i = 0 THEN None
        ELSE Some(strip_user(SubSeq(args[i], 1, find(args[i], ":") - 1)))

\* C11: for scp and rsync the extracted host is the one of the first token
\* that does not start with '-', contains ':' and whose text before the first
\* ':' does not start with '/' or '.', user@ removed; no such token, no host;
\* never an inner command; scp and rsync give the same host for the same
\* arguments.
C11_CopyHost ==
    (pc = "unwrapped" /\ cmd.name \in {s_scp, s_rsync}) =>
        /\ unwrapped[1] =
               Some(UnwrapResult(None, first_qualifying_host(cmd.args), cmd.name))
        /\ unwrap_scp(cmd)[1].host = unwrap_rsync(cmd)[1].host

s_kubectl_exec == s_kubectl \o SP \o s_exec

\* the tokens after the first "--" token
after_separator(args) ==
    LET pos == first_of({i \in 1..Len(args) : args[i] = <<"-", "-">>})
    IN  SubSeq(args, pos + 1, Len(args))

has_separator(args) == \E i \in 1..Len(args) : args[i] = <<"-", "-">>

\* C12 as stated: kubectl matches iff the first argument is exec; on a match
\* the inner command is the space-join of every token after the first "--"
\* and is absent when there is no "--"; the host is always absent.
C12_Original ==
    (pc = "unwrapped" /\ cmd.name = s_kubectl) =>
        IF cmd.args # <<>> /\ cmd.args[1] = s_exec
        THEN unwrapped[1] =
                Some(UnwrapResult(IF has_separator(cmd.args)
                                  THEN Some(join(after_separator(cmd.args), SP))
                                  ELSE None,
                                  None, s_kubectl_exec))
        ELSE unwrapped[1] = None

\* C12, amended: as stated, and the inner command is absent too when no token
\* follows the first "--".
C12_KubectlExec ==
    (pc = "unwrapped" /\ cmd.name = s_kubectl) =>
        IF cmd.args # <<>> /\ cmd.args[1] = s_exec
        THEN unwrapped[1] =
                Some(UnwrapResult(IF has_separator(cmd.args)
                                     /\ after_separator(cmd.args) # <<>>
                                  THEN Some(join(after_separator(cmd.args), SP))
                                  ELSE None,
                                  None, s_kubectl_exec))
        ELSE unwrapped[1] = None

\* C12 witness: kubectl exec pod -- -- ls, the inner command starts after the
\* first separator
C12_Witness ==
    /\ pc = "unwrapped"
    /\ cmd.name = s_kubectl
    /\ Len(cmd.args) = 4
    /\ cmd.args[1] = s_exec
    /\ cmd.args[2] = <<"-", "-">> /\ cmd.args[3] = <<"-", "-">>
    /\ unwrapped[1][1].inner_command = Some(cmd.args[3] \o SP \o cmd.args[4])
    /\ unwrapped[1][1].host = None

\* the token with one layer of matching surrounding quotes removed
one_layer_removed(t) ==
    IF Len(t) >= 2 /\ t[1] = t[Len(t)] /\ t[1] \in {"'", "\""}
    THEN SubSeq(t, 2, Len(t) - 1)
    ELSE t

\* C13: the inline-shell resolver matches iff the name is sh, bash or zsh and
\* some -c token is followed by another token; the inner command is the token
\* right after the first -c with exactly one layer of matching surrounding
\* quotes removed, a token not enclosed in a matching pair coming back as it
\* is.
C13_ShellInline ==
    pc \in {"shell_unwrapped", "shell_panicked"} =>
        LET i == first_of({j \in 1..Len(cmd.args) : cmd.args[j] = s_dash_c})
        IN  /\ pc = "shell_unwrapped"
            /\ unwrapped[1] =
                   IF /\ cmd.name \in {s_sh, s_bash, s_zsh}
                      /\ \E j \in 1..(Len(cmd.args) - 1) : cmd.args[j] = s_dash_c
                   THEN Some(UnwrapResult(Some(one_layer_removed(cmd.args[i + 1])),
                                          None, cmd.name))
                   ELSE None

\* the families C14 names
scanned_families == {s_sudo, s_env, s_ssh, s_scp, s_rsync} \cup simple_wrappers

options_only(args) == \A i \in 1..Len(args) : starts_with(args[i], <<"-">>)

\* C14: for sudo, env, the simple wrappers, ssh, scp and rsync, a scan that
\* finds neither an inner command nor a host gives None, never a match; so it
\* is with no arguments and with options only.
C14_NoTokenNoMatch ==
    (pc = "unwrapped" /\ cmd.name \in scanned_families) =>
        /\ is_some(unwrapped[1]) =>
               \/ is_some(unwrapped[1][1].inner_command)
               \/ is_some(unwrapped[1][1].host)
        /\ options_only(cmd.args) => unwrapped[1] = None

\* C20: every inner command the resolvers hand to the recursive call is
\* strictly shorter than the text of the command it was taken from: it is the
\* space-join of a run of the argument tokens, the name left out, or one
\* argument token with its quotes removed.
C20_InnerShorter ==
    (/\ pc \in {"unwrapped", "shell_unwrapped"}
     /\ is_some(unwrapped[1])
     /\ is_some(unwrapped[1][1].inner_command)) =>
        LET inner == unwrapped[1][1].inner_command[1]
        IN  /\ Len(inner) < Len(cmd.text)
            /\ len(inner) < len(cmd.text)
            /\ IF pc = "unwrapped"
               THEN \E i \in 1..Len(cmd.args) :
                        inner = join(SubSeq(cmd.args, i, Len(cmd.args)), SP)
               ELSE \E i \in 1..Len(cmd.args) : inner = strip_quotes(cmd.args[i])

\* C20 witness: sudo before a command with its arguments, the inner command
\* being the text less the wrapper's name
C20_Witness ==
    /\ pc = "unwrapped"
    /\ cmd.name = s_sudo
    /\ Len(cmd.args) = 2
    /\ is_some(unwrapped[1])
    /\ unwrapped[1][1].inner_command = Some(join(cmd.args, SP))
    /\ Len(unwrapped[1][1].inner_command[1]) = Len(cmd.text) - Len(s_sudo) - 1

\* C15: no operation of the core aborts: unwrap_command and the inline-shell
\* unwrap with strip_quotes return a value for every Command, one-character
\* tokens and tokens with multi-byte characters included.
C15_NoAbort == pc \notin {"unwrap_panicked", "shell_panicked", "panicked"}

----------------------------------------------------------------------------
(* The classifiers and the per-command step on one rm or tee command       *)

\* most arguments of an rm or tee command
MaxPathArgs == 2

s_root == <<"/">>
s_tmp_a == <<"/", "t", "m", "p", "/", "a">>
s_h_b == <<"/", "h", "/", "b">>
s_home == <<"/", "h">>

path_tokens == {<<"-", "r", "f">>, s_tmp_a, s_h_b, s_root, <<"a">>,
                s_tmp_slash \o <<"NL">>}

\* what realpath may print: canonical absolute paths
canonical_paths == {s_tmp_a, s_tmp, s_root, s_h_b}

\* the session working directory handed to the classifiers
Cwds == {None, Some(s_home), Some(s_home \o <<"/">>), Some(s_root), Some(<<>>)}

\* the rm and tee commands of at most n arguments
PathCommands(n) ==
    {Command(name, args) : name \in {s_rm, s_tee}, args \in SeqsUpTo(path_tokens, n)}

\* the paths realpath may be asked about for c: its file arguments and their
\* parent directories
asked_paths(c) ==
    LET files == {file_args(c.args)[i] : i \in 1..Len(file_args(c.args))}
    IN  files \cup {parent(f)[1] : f \in {g \in files : is_some(parent(g))}}

PathConfigs == {c \in Configs : c.rules[s_ls] = "Allow" /\ c.hosts[s_h] = "Allow"}

InitPath ==
    /\ pc = "path"
    /\ cmd \in PathCommands(MaxPathArgs)
    /\ initial_cwd \in Cwds
    /\ fs \in [asked_paths(cmd) -> {None} \cup {Some(r) : r \in canonical_paths}]
    /\ config \in PathConfigs
    /\ classified = None
    /\ single = None
    /\ child = Unused /\ elapsed = Unused /\ advice = Unused
    /\ command = Unused /\ result = Unused /\ checked = Unused /\ message = Unused
    /\ unwrapped = Unused

\* rm::check_rm(&cmd, initial_cwd) and tee::check_tee(&cmd, initial_cwd)
Classify ==
    /\ pc = "path"
    /\ classified' = Some([rm |-> check_rm(cmd, initial_cwd, fs),
                           tee |-> check_tee(cmd, initial_cwd, fs)])
    /\ pc' = "classified"
    /\ UNCHANGED <<child, elapsed, advice, command, config, result, checked, message, cmd, unwrapped,
                   initial_cwd, fs, single>>

\* main.rs: check_single_command(&cmd, &config)
CheckSingle ==
    /\ pc = "classified"
    /\ single' = Some(check_single_command(cmd, config))
    /\ pc' = "checked"
    /\ UNCHANGED <<child, elapsed, advice, command, config, result, checked, message, cmd, unwrapped,
                   initial_cwd, fs, classified>>

NextPath == Classify \/ CheckSingle

SpecPath == InitPath /\ [][NextPath]_vars

----------------------------------------------------------------------------
(* Properties of the classifiers, checked under SpecPath                   *)

\* C5: whenever check_rm or check_tee returns Allow for a command,
\* check_single_command returns that Allow for it, whatever the policy store
\* says of the command.
C5_ClassifierFirst ==
    pc = "checked" =>
        /\ is_some(classified[1].rm) => single[1] = classified[1].rm[1]
        /\ is_some(classified[1].tee) => single[1] = classified[1].tee[1]

\* the canonical path equals root, one separator, and a suffix that is not
\* empty and not made of separators only; root has its trailing separators
\* taken off first
confined(resolved, root) ==
    LET r == strip_trailing_slashes(root)
        suffix == SubSeq(resolved, Len(r) + 2, Len(resolved))
    IN  /\ starts_with(resolved, r \o <<"/">>)
        /\ suffix # <<>>
        /\ \E i \in 1..Len(suffix) : suffix[i] # "/"

\* the trusted roots: /tmp, and for rm the session working directory
trusted_roots(name, cwd) ==
    IF name = s_rm /\ is_some(cwd) THEN {s_tmp, cwd[1]} ELSE {s_tmp}

\* the canonical form the safe-path test looks at: that of the path, or else
\* that of its parent directory; None when neither call succeeds
canonical_of(path, oracle) ==
    IF is_some(resolve_path(path, oracle)) THEN resolve_path(path, oracle)
    ELSE IF is_some(parent(path)) /\ parent(path)[1] # <<>>
         THEN resolve_path(parent(path)[1], oracle)
    ELSE None

passes_safe_path_test(name, path, cwd, oracle) ==
    /\ path # <<>>
    /\ \A i \in 1..Len(path) : path[i] \notin {"NUL", "NL"}
    /\ is_some(canonical_of(path, oracle))
    /\ \E root \in trusted_roots(name, cwd) : confined(canonical_of(path, oracle)[1], root)

\* C6: for an rm or tee command with a non-flag argument the classifier
\* returns Allow if and only if every non-flag argument passes the safe-path
\* test, and None otherwise; never Ask or Deny.
C6_AllowIffEveryPathSafe ==
    (pc \in {"classified", "checked"} /\ file_args(cmd.args) # <<>>) =>
        LET r == IF cmd.name = s_rm THEN classified[1].rm ELSE classified[1].tee
            every_path_passes ==
                \A i \in 1..Len(file_args(cmd.args)) :
                    passes_safe_path_test(cmd.name, file_args(cmd.args)[i],
                                          initial_cwd, fs)
        IN  /\ is_some(r) => r[1].permission = "Allow"
            /\ is_some(r) <=> every_path_passes

\* C7: a canonical path is accepted as confined only if it equals a trusted
\* root, one separator, and a suffix that is not empty and not separators
\* only; the root itself is never accepted, whatever the working directory.
C7_ConfinedToRoot ==
    pc \in {"classified", "checked"} =>
        \A k \in DOMAIN fs :
            is_some(fs[k]) =>
                /\ is_under_tmp(fs[k][1]) => confined(fs[k][1], s_tmp)
                /\ is_under_allowed_dir(fs[k][1], initial_cwd) =>
                       \E root \in trusted_roots(s_rm, initial_cwd) :
                           confined(fs[k][1], root)

----------------------------------------------------------------------------
(* Properties of the hook output, checked under SpecFormat                 *)

\* the first n characters of the line
capped(line, n) == IF Len(line) > n THEN SubSeq(line, 1, n) ELSE line

\* C16: format_reason on the outermost result: an empty reason gives exactly
\* the raw line; a non-empty reason gives the raw line capped at 60
\* characters, then the reason, then the suggestion on its own line when there
\* is one.
C16_FormatReason ==
    pc \in {"done", "panicked"} =>
        /\ pc = "done"
        /\ message[1].reason =
               IF result[1].reason = <<>> THEN command
               ELSE capped(command, MaxShown) \o <<":", " ">> \o result[1].reason
                        \o (IF is_some(result[1].suggestion)
                            THEN <<"NL">> \o result[1].suggestion[1] ELSE <<>>)

----------------------------------------------------------------------------
(* advice.rs: get_advice, one call; the advisory process is the            *)
(* environment.  Time is counted in milliseconds since Instant::now().     *)

\* Duration::from_secs(10)
Timeout == 10000

\* Duration::from_millis(100)
PollInterval == 100

\* the most a sleep lasts beyond the interval asked for
MaxOversleep == 50

\* (mutant of within_timeout: the bound itself still counts as in time)
within_timeout_inclusive(e) == e <= Timeout

\* start.elapsed() < timeout
within_timeout(e) == e < Timeout

advice_prefix == <<"A", "I", " ", "a", "d", "v", "i", "c", "e", ":", " ">>

\* what the advisory process writes to its standard output
Outputs == {<<>>, <<" ">>, <<" ", "o", "k", " ">>}

\* the text returned for the output read
advice_of(output) ==
    IF trim(output) = <<>> THEN None ELSE Some(advice_prefix \o trim(output))

InitAdvice ==
    /\ pc = "advice"
    /\ command = s_rm
    /\ result \in {Some(PermissionResult(p, default_reason, None)) : p \in Permissions}
    /\ child = [state |-> "none", output |-> <<>>]
    /\ elapsed = 0
    /\ advice = None
    /\ config = Unused /\ checked = Unused /\ message = Unused
    /\ cmd = Unused /\ unwrapped = Unused
    /\ initial_cwd = Unused /\ fs = Unused /\ classified = Unused /\ single = Unused

advice_unchanged ==
    UNCHANGED <<command, config, result, checked, message, cmd, unwrapped,
                initial_cwd, fs, classified, single>>

\* the match on the permission: no advice is asked for Allow
AdviceStart ==
    /\ pc = "advice"
    /\ pc' = IF result[1].permission \in {"Ask", "Deny"} THEN "spawn" ELSE "advice_returned"
    /\ UNCHANGED <<child, elapsed, advice>>
    /\ advice_unchanged

\* Command::new("claude-safe") ... .spawn().ok()?
Spawn ==
    /\ pc = "spawn"
    /\ \/ pc' = "advice_returned" /\ UNCHANGED child
       \/ pc' = "poll" /\ child' = [child EXCEPT !.state = "running"]
    /\ UNCHANGED <<elapsed, advice>>
    /\ advice_unchanged

\* the advisory process ends, having written its output
ChildExit ==
    /\ child.state = "running"
    /\ \E o \in Outputs : child' = [state |-> "exited", output |-> o]
    /\ UNCHANGED <<pc, elapsed, advice>>
    /\ advice_unchanged

\* child.try_wait(): Ok(Some(_)) => break
PollExited ==
    /\ pc = "poll"
    /\ child.state = "exited"
    /\ pc' = "read"
    /\ UNCHANGED <<child, elapsed, advice>>
    /\ advice_unchanged

\* child.try_wait(): Ok(None) if start.elapsed() < timeout => sleep
PollRunning ==
    /\ pc = "poll"
    /\ child.state = "running"
    /\ within_timeout(elapsed)
    /\ pc' = "sleep"
    /\ UNCHANGED <<child, elapsed, advice>>
    /\ advice_unchanged

\* child.try_wait(): Ok(None) past the timeout, or Err(_): kill, return None
PollKill ==
    /\ pc = "poll"
    /\ \E failed \in BOOLEAN :
           failed \/ (child.state = "running" /\ ~within_timeout(elapsed))
    /\ child' = [child EXCEPT !.state = "killed"]
    /\ advice' = None
    /\ pc' = "advice_returned"
    /\ UNCHANGED elapsed
    /\ advice_unchanged

\* std::thread::sleep(Duration::from_millis(100))
Sleep ==
    /\ pc = "sleep"
    /\ \E over \in {0, MaxOversleep} : elapsed' = elapsed + PollInterval + over
    /\ pc' = "poll"
    /\ UNCHANGED <<child, advice>>
    /\ advice_unchanged

\* child.stdout?.read_to_string(&mut output).ok()?, then the trimmed text;
\* the writer has exited, so the read ends
Read ==
    /\ pc = "read"
    /\ \/ advice' = None
       \/ advice' = advice_of(child.output)
    /\ pc' = "advice_returned"
    /\ UNCHANGED <<child, elapsed>>
    /\ advice_unchanged

NextAdvice ==
    \/ AdviceStart \/ Spawn \/ ChildExit \/ PollExited \/ PollRunning \/ PollKill
    \/ Sleep \/ Read

\* the steps of get_advice are taken; the advisory process need not ever end
SpecAdvice ==
    /\ InitAdvice /\ [][NextAdvice]_vars
    /\ WF_vars(AdviceStart) /\ WF_vars(Spawn)
    /\ WF_vars(PollExited \/ PollRunning \/ PollKill)
    /\ WF_vars(Sleep) /\ WF_vars(Read)

----------------------------------------------------------------------------
(* Properties of the advisory call, checked under SpecAdvice               *)

\* C17: for Ask or Deny get_advice always returns; it sleeps only while less
\* than the timeout has elapsed, so the first poll at or past 10 seconds that
\* does not see the process ended kills it; after a kill the result is None;
\* the permission computed before the call is never changed.
C17_AdviceBounded ==
    /\ [](pc = "sleep" => elapsed < Timeout)
    /\ [](elapsed < Timeout + PollInterval + MaxOversleep)
    /\ []((pc = "advice_returned" /\ child.state = "killed") => advice = None)
    /\ []((pc = "advice_returned" /\ is_some(advice)) => child.state = "exited")
    /\ [][result' = result]_vars
    /\ <>(pc = "advice_returned")

\* C17 witness: the advisory process never ended and was killed at the first
\* poll past the timeout
C17_Witness ==
    /\ pc = "advice_returned"
    /\ result[1].permission = "Deny"
    /\ child.state = "killed"
    /\ elapsed >= Timeout
    /\ advice = None
====
